---- MODULE Spec2Model ----
(***************************************************************************)
(* A model of rclpy/qos.py: the QoS policy enumerations, QoSProfile        *)
(* (constructor, validated setters, equality), the preset registry and     *)
(* qos_check_compatible.                                                   *)
(*                                                                         *)
(* Python values are records [t |-> type name, v |-> integer payload]:     *)
(*   NoneType, int, bool, str, Duration (v = nanoseconds) and the four     *)
(*   IntEnum policy classes (v = the member's value).                      *)
(* Python strings that are looked at character by character (member names, *)
(* short keys) are sequences of one-character strings.                     *)
(***************************************************************************)
EXTENDS Integers, Sequences, FiniteSets, TLC

(* ------------------------------------------------------------------ *)
(* Python values                                                        *)
(* ------------------------------------------------------------------ *)
PolicyTypes == {"HistoryPolicy", "ReliabilityPolicy", "DurabilityPolicy", "LivelinessPolicy"}

None == [t |-> "NoneType", v |-> 0]
PyInt(n) == [t |-> "int", v |-> n]
PyBool(b) == [t |-> "bool", v |-> IF b THEN 1 ELSE 0]
PyStr == [t |-> "str", v |-> 0]
Duration(ns) == [t |-> "Duration", v |-> ns]
Member(cls, n) == [t |-> cls, v |-> n]
\* A slot of __slots__ that no assignment has filled yet.
Unset == [t |-> "unset", v |-> 0]

\* isinstance(x, int): bool and every IntEnum class are subclasses of int.
IsInstanceInt(x) == x.t \in ({"int", "bool"} \cup PolicyTypes)
IsInstanceBool(x) == x.t = "bool"
IsInstanceDuration(x) == x.t = "Duration"

\* Python's ==.  int, bool and IntEnum members compare by integer value; two
\* Durations compare by nanoseconds; None equals only None; a Duration
\* against anything else is NotImplemented on both sides, hence False.
PyEq(x, y) ==
  IF IsInstanceInt(x) /\ IsInstanceInt(y) THEN x.v = y.v
  ELSE IF x.t = "Duration" /\ y.t = "Duration" THEN x.v = y.v
  ELSE x = y

(* ------------------------------------------------------------------ *)
(* Policy enumerations: __members__ in declaration order                *)
(* ------------------------------------------------------------------ *)
HistoryPolicy ==
  << [name |-> <<"S","Y","S","T","E","M","_","D","E","F","A","U","L","T">>, value |-> 0],
     [name |-> <<"K","E","E","P","_","L","A","S","T">>, value |-> 1],
     [name |-> <<"K","E","E","P","_","A","L","L">>, value |-> 2],
     [name |-> <<"U","N","K","N","O","W","N">>, value |-> 3] >>

ReliabilityPolicy ==
  << [name |-> <<"S","Y","S","T","E","M","_","D","E","F","A","U","L","T">>, value |-> 0],
     [name |-> <<"R","E","L","I","A","B","L","E">>, value |-> 1],
     [name |-> <<"B","E","S","T","_","E","F","F","O","R","T">>, value |-> 2],
     [name |-> <<"U","N","K","N","O","W","N">>, value |-> 3],
     [name |-> <<"B","E","S","T","_","A","V","A","I","L","A","B","L","E">>, value |-> 4] >>

DurabilityPolicy ==
  << [name |-> <<"S","Y","S","T","E","M","_","D","E","F","A","U","L","T">>, value |-> 0],
     [name |-> <<"T","R","A","N","S","I","E","N","T","_","L","O","C","A","L">>, value |-> 1],
     [name |-> <<"V","O","L","A","T","I","L","E">>, value |-> 2],
     [name |-> <<"U","N","K","N","O","W","N">>, value |-> 3],
     [name |-> <<"B","E","S","T","_","A","V","A","I","L","A","B","L","E">>, value |-> 4] >>

LivelinessPolicy ==
  << [name |-> <<"S","Y","S","T","E","M","_","D","E","F","A","U","L","T">>, value |-> 0],
     [name |-> <<"A","U","T","O","M","A","T","I","C">>, value |-> 1],
     [name |-> <<"M","A","N","U","A","L","_","B","Y","_","T","O","P","I","C">>, value |-> 3],
     [name |-> <<"U","N","K","N","O","W","N">>, value |-> 4],
     [name |-> <<"B","E","S","T","_","A","V","A","I","L","A","B","L","E">>, value |-> 5] >>

\* cls.__members__ for a policy class name.
Members(cls) ==
  CASE cls = "HistoryPolicy" -> HistoryPolicy
    [] cls = "ReliabilityPolicy" -> ReliabilityPolicy
    [] cls = "DurabilityPolicy" -> DurabilityPolicy
    [] cls = "LivelinessPolicy" -> LivelinessPolicy

\* The integers for which cls(value) finds a member.
MemberValues(cls) == {Members(cls)[i].value : i \in DOMAIN Members(cls)}

\* cls(value), the IntEnum lookup by value: the member, or ValueError.
\* The result is [exc, val].
EnumCall(cls, x) ==
  IF x.v \in MemberValues(cls)
    THEN [exc |-> "none", val |-> Member(cls, x.v)]
    ELSE [exc |-> "ValueError", val |-> None]

KEEP_LAST == Member("HistoryPolicy", 1)

(* ------------------------------------------------------------------ *)
(* str.upper, str.lower, str.startswith on sequences of characters      *)
(* ------------------------------------------------------------------ *)
UpperLetters ==
  << "A","B","C","D","E","F","G","H","I","J","K","L","M",
     "N","O","P","Q","R","S","T","U","V","W","X","Y","Z" >>

LowerLetters ==
  << "a","b","c","d","e","f","g","h","i","j","k","l","m",
     "n","o","p","q","r","s","t","u","v","w","x","y","z" >>

CharUpper(c) ==
  IF \E i \in DOMAIN LowerLetters : LowerLetters[i] = c
    THEN UpperLetters[CHOOSE i \in DOMAIN LowerLetters : LowerLetters[i] = c]
    ELSE c

CharLower(c) ==
  IF \E i \in DOMAIN UpperLetters : UpperLetters[i] = c
    THEN LowerLetters[CHOOSE i \in DOMAIN UpperLetters : UpperLetters[i] = c]
    ELSE c

str_upper(str) == [i \in DOMAIN str |-> CharUpper(str[i])]

str_lower(str) == [i \in DOMAIN str |-> CharLower(str[i])]

str_startswith(str, prefix) ==
  Len(prefix) <= Len(str) /\ SubSeq(str, 1, Len(prefix)) = prefix

Elements(seq) == {seq[j] : j \in DOMAIN seq}

RMW == <<"R","M","W">>

(* ------------------------------------------------------------------ *)
(* QoSPolicyEnum: short_keys, get_from_short_key, short_key             *)
(* ------------------------------------------------------------------ *)
\* The names the _deprecated_policy_value_aliases decorator sets on a policy
\* class, each with its replacement.  They are class attributes, not
\* members: __members__ does not list them and cls[name] does not find them.
DeprecatedAliases(cls) ==
  LET P == <<"R","M","W","_","Q","O","S","_","P","O","L","I","C","Y","_">>
      H == P \o <<"H","I","S","T","O","R","Y","_">>
      R == P \o <<"R","E","L","I","A","B","I","L","I","T","Y","_">>
      D == P \o <<"D","U","R","A","B","I","L","I","T","Y","_">>
      L == P \o <<"L","I","V","E","L","I","N","E","S","S","_">>
      Pair(prefix, m) == [deprecated |-> prefix \o m.name, replacement |-> m.name]
  IN CASE cls = "HistoryPolicy" -> [i \in 1..4 |-> Pair(H, HistoryPolicy[i])]
       [] cls = "ReliabilityPolicy" -> [i \in 1..4 |-> Pair(R, ReliabilityPolicy[i])]
       [] cls = "DurabilityPolicy" -> [i \in 1..4 |-> Pair(D, DurabilityPolicy[i])]
       [] cls = "LivelinessPolicy" ->
            [i \in 1..4 |-> Pair(IF i = 4 THEN D ELSE L, LivelinessPolicy[i])]

\* [k.lower() for k in keys if not k.startswith('RMW')], from key i on.
RECURSIVE LowerNonLegacy(_, _)
LowerNonLegacy(names, i) ==
  IF i > Len(names) THEN << >>
  ELSE IF str_startswith(names[i], RMW) THEN LowerNonLegacy(names, i + 1)
  ELSE <<str_lower(names[i])>> \o LowerNonLegacy(names, i + 1)

MemberNames(members) == [i \in DOMAIN members |-> members[i].name]

\* QoSPolicyEnum.short_keys(cls)
short_keys(cls) == LowerNonLegacy(MemberNames(Members(cls)), 1)

\* cls[key]: the member named key, or KeyError.  [exc, val], val an index
\* into __members__.
GetItem(members, key) ==
  IF \E i \in DOMAIN members : members[i].name = key
    THEN [exc |-> "none", val |-> CHOOSE i \in DOMAIN members : members[i].name = key]
    ELSE [exc |-> "KeyError", val |-> 0]

\* get_from_short_key looking the name up as given, without upper().
get_from_short_key_as_given(cls, name) ==
  LET m == GetItem(Members(cls), name)
  IN IF m.exc # "none" THEN [exc |-> m.exc, val |-> None]
     ELSE [exc |-> "none", val |-> PyInt(Members(cls)[m.val].value)]

\* QoSPolicyEnum.get_from_short_key(cls, name): cls[name.upper()].value.
\* The value of an IntEnum member is the plain integer.
get_from_short_key(cls, name) ==
  LET m == GetItem(Members(cls), str_upper(name))
  IN IF m.exc # "none" THEN [exc |-> m.exc, val |-> None]
     ELSE [exc |-> "none", val |-> PyInt(Members(cls)[m.val].value)]

\* The scan of QoSPolicyEnum.short_key from member i on.
RECURSIVE ShortKeyScan(_, _, _)
ShortKeyScan(self, members, i) ==
  IF i > Len(members) THEN [exc |-> "AttributeError", val |-> << >>]
  ELSE IF str_startswith(members[i].name, RMW) THEN ShortKeyScan(self, members, i + 1)
  ELSE IF self.v = members[i].value
    THEN [exc |-> "none", val |-> str_lower(members[i].name)]
  ELSE ShortKeyScan(self, members, i + 1)

\* QoSPolicyEnum.short_key (property of a member)
short_key(self) == ShortKeyScan(self, Members(self.t), 1)

(* ------------------------------------------------------------------ *)
(* QoSProfile: slots, setters, constructor                              *)
(* ------------------------------------------------------------------ *)
Slots ==
  << "history", "depth", "reliability", "durability", "lifespan", "deadline",
     "liveliness", "liveliness_lease_duration", "avoid_ros_namespace_conventions" >>

SlotSet == {Slots[i] : i \in DOMAIN Slots}

\* An object fresh from __new__: every slot still unfilled.
NewObject == [f \in SlotSet |-> Unset]

\* What a setter (or the constructor) hands back: the exception raised
\* ("none" when it returned), the object afterwards, and whether
\* warnings.warn was called.
Outcome(e, o, w) == [exc |-> e, obj |-> o, warned |-> w]

\* The four enum setters share one shape:
\*   assert isinstance(value, <Policy>) or isinstance(value, int)
\*   self._<slot> = <Policy>(value)
EnumSetter(self, slot, cls, value) ==
  IF ~(value.t = cls \/ IsInstanceInt(value))
    THEN Outcome("AssertionError", self, FALSE)
    ELSE LET r == EnumCall(cls, value)
         IN IF r.exc # "none"
              THEN Outcome(r.exc, self, FALSE)
              ELSE Outcome("none", [self EXCEPT ![slot] = r.val], FALSE)

\* set_history that also zeroes depth when the new history is not KEEP_LAST.
set_history_resets_depth(self, value) ==
  LET r == EnumSetter(self, "history", "HistoryPolicy", value)
  IN IF r.exc = "none" /\ ~PyEq(r.obj["history"], KEEP_LAST)
       THEN Outcome("none", [r.obj EXCEPT !["depth"] = PyInt(0)], FALSE)
       ELSE r

set_history(self, value) == EnumSetter(self, "history", "HistoryPolicy", value)

set_reliability(self, value) == EnumSetter(self, "reliability", "ReliabilityPolicy", value)

set_durability(self, value) == EnumSetter(self, "durability", "DurabilityPolicy", value)

\* set_liveliness with a range check in place of the lookup by value.
set_liveliness_range(self, value) ==
  IF ~(value.t = "LivelinessPolicy" \/ IsInstanceInt(value))
    THEN Outcome("AssertionError", self, FALSE)
    ELSE IF value.v < 0 \/ value.v > 5
      THEN Outcome("ValueError", self, FALSE)
      ELSE Outcome("none", [self EXCEPT !["liveliness"] = Member("LivelinessPolicy", value.v)],
                   FALSE)

set_liveliness(self, value) == EnumSetter(self, "liveliness", "LivelinessPolicy", value)

\* depth: assert isinstance(value, int); warn on KEEP_LAST with 0; store.
set_depth(self, value) ==
  IF ~IsInstanceInt(value)
    THEN Outcome("AssertionError", self, FALSE)
    ELSE Outcome("none", [self EXCEPT !["depth"] = value],
                 PyEq(self["history"], KEEP_LAST) /\ PyEq(value, PyInt(0)))

\* lifespan, deadline, liveliness_lease_duration:
\*   assert isinstance(value, Duration); store.
DurationSetter(self, slot, value) ==
  IF ~IsInstanceDuration(value)
    THEN Outcome("AssertionError", self, FALSE)
    ELSE Outcome("none", [self EXCEPT ![slot] = value], FALSE)

set_lifespan(self, value) == DurationSetter(self, "lifespan", value)

set_deadline(self, value) == DurationSetter(self, "deadline", value)

set_liveliness_lease_duration(self, value) ==
  DurationSetter(self, "liveliness_lease_duration", value)

set_avoid_ros_namespace_conventions(self, value) ==
  IF ~IsInstanceBool(value)
    THEN Outcome("AssertionError", self, FALSE)
    ELSE Outcome("none", [self EXCEPT !["avoid_ros_namespace_conventions"] = value], FALSE)

\* self.<slot> = value, by slot name.
SetSlot(self, slot, value) ==
  CASE slot = "history" -> set_history(self, value)
    [] slot = "depth" -> set_depth(self, value)
    [] slot = "reliability" -> set_reliability(self, value)
    [] slot = "durability" -> set_durability(self, value)
    [] slot = "lifespan" -> set_lifespan(self, value)
    [] slot = "deadline" -> set_deadline(self, value)
    [] slot = "liveliness" -> set_liveliness(self, value)
    [] slot = "liveliness_lease_duration" -> set_liveliness_lease_duration(self, value)
    [] slot = "avoid_ros_namespace_conventions" ->
         set_avoid_ros_namespace_conventions(self, value)

\* One assignment statement of a sequential body: skipped once an exception
\* is in flight, otherwise performed, its warning added to those so far.
Then(s, slot, value) ==
  IF s.exc # "none" THEN s
  ELSE LET r == SetSlot(s.obj, slot, value)
       IN Outcome(r.exc, r.obj, s.warned \/ r.warned)

isinstance_QoSProfile(x) == DOMAIN x = SlotSet

\* all(... for slot in self.__slots__) from slot i on.
RECURSIVE AllSlotsEqual(_, _, _)
AllSlotsEqual(self, other, i) ==
  IF i > Len(Slots) THEN TRUE
  ELSE IF ~PyEq(self[Slots[i]], other[Slots[i]]) THEN FALSE
  ELSE AllSlotsEqual(self, other, i + 1)

\* __eq__ comparing all slots but the last.
QoSProfile_eq_short(self, other) ==
  IF ~isinstance_QoSProfile(other) THEN FALSE
  ELSE AllSlotsEqual([self EXCEPT ![Slots[Len(Slots)]] = None],
                     [other EXCEPT ![Slots[Len(Slots)]] = None], 1)

\* QoSProfile.__eq__(self, other)
QoSProfile_eq(self, other) ==
  IF ~isinstance_QoSProfile(other) THEN FALSE
  ELSE AllSlotsEqual(self, other, 1)

\* The expression x == y with x a QoSProfile or not: Python calls
\* x.__eq__(y), and the reflected y.__eq__(x) when x has no answer.
Equals(x, y) ==
  IF isinstance_QoSProfile(x) THEN QoSProfile_eq(x, y)
  ELSE IF isinstance_QoSProfile(y) THEN QoSProfile_eq(y, x)
  ELSE PyEq(x, y)

(* ------------------------------------------------------------------ *)
(* The backend's predefined profiles, as to_dict() hands them over:     *)
(* policies as plain integers, times as Duration objects (payload in    *)
(* whole seconds here), the flag as a bool.                             *)
(* ------------------------------------------------------------------ *)
Kwargs(h, d, r, du, ls, dl, lv, lld, av) ==
  [history |-> h, depth |-> d, reliability |-> r, durability |-> du,
   lifespan |-> ls, deadline |-> dl, liveliness |-> lv,
   liveliness_lease_duration |-> lld, avoid_ros_namespace_conventions |-> av]

PredefinedNames ==
  << "qos_profile_unknown", "qos_profile_default", "qos_profile_system_default",
     "qos_profile_sensor_data", "qos_profile_services_default",
     "qos_profile_parameters", "qos_profile_parameter_events",
     "rcl_action_qos_profile_status_default", "qos_profile_best_available" >>

DeadlineBestAvailable == Duration(10)

LivelinessLeaseDurationeBestAvailable == Duration(11)

\* _rclpy.rmw_qos_profile_t.predefined(name).to_dict() and
\* _rclpy.rclpy_action_get_rmw_qos_profile(name)
predefined(name) ==
  LET D0 == Duration(0)
      F == PyBool(FALSE)
      Plain(h, d, r, du) == Kwargs(PyInt(h), PyInt(d), PyInt(r), PyInt(du),
                                   D0, D0, PyInt(0), D0, F)
  IN CASE name = "qos_profile_unknown" ->
            Kwargs(PyInt(3), PyInt(0), PyInt(3), PyInt(3), D0, D0, PyInt(4), D0, F)
       [] name = "qos_profile_default" -> Plain(1, 10, 1, 2)
       [] name = "qos_profile_system_default" -> Plain(0, 0, 0, 0)
       [] name = "qos_profile_sensor_data" -> Plain(1, 5, 2, 2)
       [] name = "qos_profile_services_default" -> Plain(1, 10, 1, 2)
       [] name = "qos_profile_parameters" -> Plain(1, 1000, 1, 2)
       [] name = "qos_profile_parameter_events" -> Plain(1, 1000, 1, 2)
       [] name = "rcl_action_qos_profile_status_default" -> Plain(1, 1, 1, 1)
       [] name = "qos_profile_best_available" ->
            Kwargs(PyInt(1), PyInt(10), PyInt(4), PyInt(4), D0, DeadlineBestAvailable,
                   PyInt(5), LivelinessLeaseDurationeBestAvailable, F)

\* QoSProfile.__qos_profile_default_dict
qos_profile_default_dict == predefined("qos_profile_default")

\* AssignFrom falling back to the system-default profile's dictionary.
RECURSIVE AssignFrom_system_default(_, _, _)
AssignFrom_system_default(s, i, kwargs) ==
  IF i > Len(Slots) \/ s.exc # "none" THEN s
  ELSE LET slot == Slots[i]
           value == IF kwargs[slot] = None
                      THEN predefined("qos_profile_system_default")[slot]
                      ELSE kwargs[slot]
       IN AssignFrom_system_default(Then(s, slot, value), i + 1, kwargs)

\* The assignments of __init__ from slot i on, in slot order (the order of
\* the statements): self.<slot> = <default> if <kw> is None else <kw>.
RECURSIVE AssignFrom(_, _, _)
AssignFrom(s, i, kwargs) ==
  IF i > Len(Slots) \/ s.exc # "none" THEN s
  ELSE LET slot == Slots[i]
           value == IF kwargs[slot] = None THEN qos_profile_default_dict[slot]
                    ELSE kwargs[slot]
       IN AssignFrom(Then(s, slot, value), i + 1, kwargs)

\* __init__ without the KEEP_LAST-needs-depth check: depth falls back to the default.
QoSProfile_init_no_depth_check(kwargs) ==
  IF kwargs.history = None /\ kwargs.depth = None
    THEN Outcome("InvalidQoSProfileException", NewObject, FALSE)
    ELSE LET history == IF kwargs.history = None THEN KEEP_LAST ELSE kwargs.history
             s1 == set_history(NewObject, history)
         IN IF s1.exc # "none" THEN s1
            ELSE AssignFrom(s1, 2, kwargs)

\* QoSProfile.__init__(**kwargs): an omitted keyword is None.
QoSProfile_init(kwargs) ==
  IF kwargs.history = None /\ kwargs.depth = None
    THEN Outcome("InvalidQoSProfileException", NewObject, FALSE)
    ELSE LET history == IF kwargs.history = None THEN KEEP_LAST ELSE kwargs.history
             s1 == set_history(NewObject, history)
         IN IF s1.exc # "none" THEN s1
            ELSE IF PyEq(KEEP_LAST, s1.obj["history"]) /\ kwargs.depth = None
              THEN Outcome("InvalidQoSProfileException", s1.obj, FALSE)
              ELSE AssignFrom(s1, 2, kwargs)

\* QoSProfile(**kwargs) as an expression: the new object, or None when
\* __init__ raised and the caller gets no object at all.
New(kwargs) ==
  LET r == QoSProfile_init(kwargs)
  IN [exc |-> r.exc, ret |-> IF r.exc = "none" THEN r.obj ELSE None, warned |-> r.warned]

\* The module-level preset objects (import time), by predefined name.
ModuleProfile(name) == New(predefined(name)).ret

qos_profile_default == ModuleProfile("qos_profile_default")

(* ------------------------------------------------------------------ *)
(* Bounds and input sets                                                *)
(* ------------------------------------------------------------------ *)
\* Largest depth a caller passes; the smallest is -1.
MaxDepth == 1

\* Number of calls made after the initial state.
MaxCalls == 2

AllMembers(cls) == {Member(cls, n) : n \in MemberValues(cls)}

DepthInputs == {PyInt(n) : n \in -1..MaxDepth}

\* Constructor keywords: omitted, valid, invalid for every parameter.
AllKwargs ==
  { Kwargs(h, d, r, du, ls, dl, lv, lld, av) :
      h \in {None, KEEP_LAST, Member("HistoryPolicy", 2), PyInt(1), PyInt(7)},
      d \in {None} \cup DepthInputs,
      r \in {None, Member("ReliabilityPolicy", 2), PyInt(9)},
      du \in {None, Member("DurabilityPolicy", 1), PyInt(9)},
      ls \in {None, Duration(1), PyInt(5)},
      dl \in {None, Duration(1), PyInt(5)},
      lv \in {None, Member("LivelinessPolicy", 1), PyInt(2)},
      lld \in {None, Duration(1), PyInt(5)},
      av \in {None, PyBool(TRUE), PyInt(1)} }

\* Constructor keywords of the profiles the setters are then called on:
\* every history/depth combination, the other parameters omitted.
StartKwargs ==
  { Kwargs(h, d, None, None, None, None, None, None, None) :
      h \in {None, PyInt(1), PyInt(4)} \cup AllMembers("HistoryPolicy"),
      d \in {None} \cup DepthInputs }

HistoryInputs == AllMembers("HistoryPolicy") \cup {PyInt(1), PyInt(4), PyStr}

ReliabilityInputs ==
  {Member("ReliabilityPolicy", 1), Member("ReliabilityPolicy", 2), PyInt(4), PyInt(5),
   Member("HistoryPolicy", 3)}

DurabilityInputs ==
  {Member("DurabilityPolicy", 1), Member("DurabilityPolicy", 2), PyInt(0), PyInt(-1)}

LivelinessInputs ==
  {Member("LivelinessPolicy", 1), PyInt(2), PyInt(3), PyInt(6), PyBool(TRUE)}

DepthSetterInputs == DepthInputs \cup {None}

DurationInputs == {Duration(1), Duration(2), PyInt(1)}

BoolInputs == {PyBool(TRUE), PyBool(FALSE), PyInt(1)}

(* ------------------------------------------------------------------ *)
(* State                                                                *)
(* ------------------------------------------------------------------ *)
VARIABLES
  heap,     \* the caller's own QoSProfile objects "a" and "b" (None until built)
  presets,  \* the module-level preset objects a setter has stored into, by
            \* predefined name, with their fields now; a preset not listed
            \* still has the fields it was built with at import
  ref,      \* the object the caller's handle designates, or "none"
  op,       \* the last operation called
  arg,      \* its argument (setters, lookups)
  kwargs,   \* the keywords of the last constructor call
  exc,      \* the exception it raised, or "none"
  warned,   \* whether it called warnings.warn
  ret,      \* what it returned
  ncalls    \* calls made since the initial state

vars == <<heap, presets, ref, op, arg, kwargs, exc, warned, ret, ncalls>>

PresetObjects == {PredefinedNames[i] : i \in DOMAIN PredefinedNames}

Own == {"a", "b"}

\* The object at an address.
Deref(x) ==
  IF x \in Own THEN heap[x]
  ELSE IF x \in DOMAIN presets THEN presets[x]
  ELSE ModuleProfile(x)

NoKwargs == Kwargs(None, None, None, None, None, None, None, None, None)

\* Right after import.
Imported ==
  /\ heap = [x \in Own |-> None]
  /\ presets = << >>
  /\ ref = "none"
  /\ op = "import"
  /\ arg = None
  /\ kwargs = NoKwargs
  /\ exc = "none"
  /\ warned = FALSE
  /\ ret = None
  /\ ncalls = 0

\* a = QoSProfile(**kw), the first statement after import.
FirstConstruction(kw) ==
  LET r == New(kw)
  IN /\ heap = [x \in Own |-> IF x = "a" THEN r.ret ELSE None]
     /\ presets = << >>
     /\ ref = IF r.exc = "none" THEN "a" ELSE "none"
     /\ op = "QoSProfile"
     /\ arg = None
     /\ kwargs = kw
     /\ exc = r.exc
     /\ warned = r.warned
     /\ ret = r.ret
     /\ ncalls = 0

\* a = QoSProfile(**kw) as a step.
Construct(kw) ==
  LET r == New(kw)
  IN /\ heap' = [heap EXCEPT !["a"] = r.ret]
     /\ ref' = IF r.exc = "none" THEN "a" ELSE "none"
     /\ op' = "QoSProfile"
     /\ arg' = None
     /\ kwargs' = kw
     /\ exc' = r.exc
     /\ warned' = r.warned
     /\ ret' = r.ret
     /\ ncalls' = ncalls + 1
     /\ UNCHANGED presets

\* <handle>.<slot> = value.  The setter works on the object the handle
\* designates; a setter that raised has stored nothing.
Set(slot, value) ==
  /\ ref # "none"
  /\ ncalls < MaxCalls
  /\ LET r == SetSlot(Deref(ref), slot, value)
     IN /\ exc' = r.exc
        /\ warned' = r.warned
        /\ IF r.exc # "none" THEN UNCHANGED <<heap, presets>>
           ELSE IF ref \in Own
             THEN heap' = [heap EXCEPT ![ref] = r.obj] /\ UNCHANGED presets
             ELSE presets' = [x \in DOMAIN presets \cup {ref} |->
                                IF x = ref THEN r.obj ELSE presets[x]]
                  /\ UNCHANGED heap
  /\ op' = slot
  /\ arg' = value
  /\ ret' = None
  /\ ncalls' = ncalls + 1
  /\ UNCHANGED <<ref, kwargs>>

SetHistory == \E v \in HistoryInputs : Set("history", v)

SetDepth == \E v \in DepthSetterInputs : Set("depth", v)

SetReliability == \E v \in ReliabilityInputs : Set("reliability", v)

SetDurability == \E v \in DurabilityInputs : Set("durability", v)

SetLifespan == \E v \in DurationInputs : Set("lifespan", v)

SetDeadline == \E v \in DurationInputs : Set("deadline", v)

SetLiveliness == \E v \in LivelinessInputs : Set("liveliness", v)

SetLivelinessLeaseDuration == \E v \in DurationInputs : Set("liveliness_lease_duration", v)

SetAvoidRosNamespaceConventions ==
  \E v \in BoolInputs : Set("avoid_ros_namespace_conventions", v)

Setters ==
  \/ SetHistory
  \/ SetDepth
  \/ SetReliability
  \/ SetDurability
  \/ SetLifespan
  \/ SetDeadline
  \/ SetLiveliness
  \/ SetLivelinessLeaseDuration
  \/ SetAvoidRosNamespaceConventions

\* Spec: one profile is built, then its setters are called.
Init == \E kw \in StartKwargs : FirstConstruction(kw)

Next == Setters

Spec == Init /\ [][Next]_vars

\* SpecConstruct: the constructor alone, over all keyword combinations.
ConstructAny == op = "import" /\ \E kw \in AllKwargs : Construct(kw)

SpecConstruct == Imported /\ [][ConstructAny]_vars

(* ------------------------------------------------------------------ *)
(* qos_check_compatible                                                 *)
(* ------------------------------------------------------------------ *)
\* _rclpy.rmw_qos_profile_t(...): the backend's record of a profile, its
\* nine fields positional, in plain integers.
rmw_qos_profile_t(h, d, r, du, ls, dl, lv, lld, av) ==
  [history |-> h, depth |-> d, reliability |-> r, durability |-> du,
   lifespan |-> ls, deadline |-> dl, liveliness |-> lv,
   liveliness_lease_duration |-> lld, avoid_ros_namespace_conventions |-> av]

\* Duration.get_c_duration()
get_c_duration(d) == d.v

\* get_c_qos_profile with deadline and lifespan in each other's position.
get_c_qos_profile_swapped(self) ==
  rmw_qos_profile_t(
    self["history"].v, self["depth"].v, self["reliability"].v, self["durability"].v,
    get_c_duration(self["deadline"]), get_c_duration(self["lifespan"]),
    self["liveliness"].v, get_c_duration(self["liveliness_lease_duration"]),
    self["avoid_ros_namespace_conventions"].v)

\* QoSProfile.get_c_qos_profile(self)
get_c_qos_profile(self) ==
  rmw_qos_profile_t(
    self["history"].v, self["depth"].v, self["reliability"].v, self["durability"].v,
    get_c_duration(self["lifespan"]), get_c_duration(self["deadline"]),
    self["liveliness"].v, get_c_duration(self["liveliness_lease_duration"]),
    self["avoid_ros_namespace_conventions"].v)

\* Severities, ordered: OK < WARNING < ERROR.
SevOK == 0

SevWARNING == 1

SevERROR == 2

\* The backend's per-policy comparisons, publisher against subscription.
ReliabilitySeverity(pub, sub) ==
  IF pub \in {0, 3, 4} \/ sub \in {0, 3, 4} THEN SevWARNING
  ELSE IF pub = 2 /\ sub = 1 THEN SevERROR
  ELSE SevOK

DurabilitySeverity(pub, sub) ==
  IF pub \in {0, 3, 4} \/ sub \in {0, 3, 4} THEN SevWARNING
  ELSE IF pub = 2 /\ sub = 1 THEN SevERROR
  ELSE SevOK

DeadlineSeverity(pub, sub) ==
  IF pub = 0 \/ sub = 0 THEN SevWARNING
  ELSE IF pub > sub THEN SevERROR
  ELSE SevOK

LivelinessSeverity(pub, publease, sub, sublease) ==
  IF pub \in {0, 4, 5} \/ sub \in {0, 4, 5} THEN SevWARNING
  ELSE IF pub # sub THEN SevERROR
  ELSE IF publease > sublease THEN SevERROR
  ELSE SevOK

Worst(x, y) == IF x >= y THEN x ELSE y

\* _rclpy.rclpy_qos_check_compatible(publisher, subscription): the worst
\* severity over the four policies, and the policies that were not OK.
rclpy_qos_check_compatible(pub, sub) ==
  LET sev == [RELIABILITY |-> ReliabilitySeverity(pub.reliability, sub.reliability),
              DURABILITY |-> DurabilitySeverity(pub.durability, sub.durability),
              DEADLINE |-> DeadlineSeverity(pub.deadline, sub.deadline),
              LIVELINESS |-> LivelinessSeverity(pub.liveliness, pub.liveliness_lease_duration,
                                                sub.liveliness, sub.liveliness_lease_duration)]
  IN [compatibility |-> Worst(Worst(sev.RELIABILITY, sev.DURABILITY),
                              Worst(sev.DEADLINE, sev.LIVELINESS)),
      reason |-> {k \in DOMAIN sev : sev[k] # SevOK}]

\* QoSCompatibility(code)
QoSCompatibility(code) ==
  CASE code = SevOK -> "OK"
    [] code = SevWARNING -> "WARNING"
    [] code = SevERROR -> "ERROR"

\* qos_check_compatible handing the two profiles over in the wrong order.
qos_check_compatible_swapped(publisher_qos, subscription_qos) ==
  LET result == rclpy_qos_check_compatible(get_c_qos_profile(subscription_qos),
                                           get_c_qos_profile(publisher_qos))
  IN [compatibility |-> QoSCompatibility(result.compatibility), reason |-> result.reason]

\* qos_check_compatible(publisher_qos, subscription_qos)
qos_check_compatible(publisher_qos, subscription_qos) ==
  LET result == rclpy_qos_check_compatible(get_c_qos_profile(publisher_qos),
                                           get_c_qos_profile(subscription_qos))
  IN [compatibility |-> QoSCompatibility(result.compatibility), reason |-> result.reason]

(* ------------------------------------------------------------------ *)
(* SpecEq: two objects are built and compared                           *)
(* ------------------------------------------------------------------ *)
\* In how many keywords the second constructor call differs from the first.
MaxDiff == 2

\* Two valid values for every keyword; depth also as the bool True, which
\* is an int equal to 1.
EqKwargs ==
  { Kwargs(h, d, r, du, ls, dl, lv, lld, av) :
      h \in {KEEP_LAST, Member("HistoryPolicy", 2)},
      d \in {PyInt(0), PyInt(1), PyBool(TRUE)},
      r \in {Member("ReliabilityPolicy", 1), PyInt(2)},
      du \in {Member("DurabilityPolicy", 1), Member("DurabilityPolicy", 2)},
      ls \in {Duration(0), Duration(1)},
      dl \in {Duration(0), Duration(1)},
      lv \in {Member("LivelinessPolicy", 1), Member("LivelinessPolicy", 3)},
      lld \in {Duration(0), Duration(1)},
      av \in {PyBool(TRUE), PyBool(FALSE)} }

NearKwargs(kw) ==
  {kw2 \in EqKwargs : Cardinality({f \in SlotSet : kw2[f] # kw[f]}) <= MaxDiff}

\* a = QoSProfile(**kw); b = QoSProfile(**kw2), or b is not a profile at all.
InitEq ==
  \E kw \in EqKwargs :
    \E second \in {[k |-> kw2, o |-> New(kw2).ret] : kw2 \in NearKwargs(kw)}
                    \cup {[k |-> NoKwargs, o |-> None]} :
      /\ heap = [x \in Own |-> IF x = "a" THEN New(kw).ret ELSE second.o]
      /\ presets = << >>
      /\ ref = "a"
      /\ op = "QoSProfile"
      /\ arg = None
      /\ kwargs = second.k
      /\ exc = "none"
      /\ warned = FALSE
      /\ ret = None
      /\ ncalls = 0

\* a == a, a == b, b == a, b == b
Compare ==
  /\ op = "QoSProfile"
  /\ op' = "__eq__"
  /\ ret' = [aa |-> Equals(heap["a"], heap["a"]), ab |-> Equals(heap["a"], heap["b"]),
             ba |-> Equals(heap["b"], heap["a"]), bb |-> Equals(heap["b"], heap["b"])]
  /\ UNCHANGED <<heap, presets, ref, arg, kwargs, exc, warned, ncalls>>

SpecEq == InitEq /\ [][Compare]_vars

(* ------------------------------------------------------------------ *)
(* SpecEnum: the short-key helpers of the four policy enumerations      *)
(* ------------------------------------------------------------------ *)
\* str with the letters at the positions in S lower-cased.
LowerAt(str, S) == [i \in DOMAIN str |-> IF i \in S THEN CharLower(str[i]) ELSE str[i]]

\* An upper-case name in lower case, in upper case, and with one single
\* letter in the other case.
CaseVariants(name) ==
  {LowerAt(name, S) : S \in {{}, DOMAIN name} \cup {{i} : i \in DOMAIN name}
                             \cup {DOMAIN name \ {i} : i \in DOMAIN name}}

\* Names a caller passes to cls.get_from_short_key: the member names of cls
\* in mixed case, the lower-cased member names of the other enumerations,
\* the deprecated names, a member name with a character appended, the
\* empty string.
NameInputs(cls) ==
  UNION {CaseVariants(Members(cls)[i].name) : i \in DOMAIN Members(cls)}
  \cup UNION {Elements(short_keys(c)) : c \in PolicyTypes}
  \cup {str_lower(DeprecatedAliases(cls)[i].deprecated) : i \in 1..4}
  \cup {DeprecatedAliases(cls)[i].deprecated : i \in 1..4}
  \cup {Append(str_lower(Members(cls)[i].name), "_") : i \in DOMAIN Members(cls)}
  \cup {<< >>}

CallShortKeys ==
  \E cls \in PolicyTypes :
    /\ op' = "short_keys"
    /\ arg' = [cls |-> cls, name |-> << >>]
    /\ exc' = "none"
    /\ ret' = short_keys(cls)
    /\ UNCHANGED <<heap, presets, ref, kwargs, warned, ncalls>>

CallGetFromShortKey ==
  \E cls \in PolicyTypes : \E name \in NameInputs(cls) :
    LET r == get_from_short_key(cls, name)
    IN /\ op' = "get_from_short_key"
       /\ arg' = [cls |-> cls, name |-> name]
       /\ exc' = r.exc
       /\ ret' = r.val
       /\ UNCHANGED <<heap, presets, ref, kwargs, warned, ncalls>>

CallShortKey ==
  \E cls \in PolicyTypes : \E m \in AllMembers(cls) :
    LET r == short_key(m)
    IN /\ op' = "short_key"
       /\ arg' = m
       /\ exc' = r.exc
       /\ ret' = r.val
       /\ UNCHANGED <<heap, presets, ref, kwargs, warned, ncalls>>

NextEnum ==
  \/ CallShortKeys
  \/ CallGetFromShortKey
  \/ CallShortKey

SpecEnum == Imported /\ [][NextEnum]_vars

(* ------------------------------------------------------------------ *)
(* SpecCompat: a publisher and a subscription profile are built and     *)
(* checked against each other                                           *)
(* ------------------------------------------------------------------ *)
\* Longest deadline and lease duration a caller passes.
MaxNs == 2

\* Keywords of the two profiles: every reliability; durability, liveliness
\* with two concrete members and an indeterminate one; the deadline unset
\* (0) or concrete; a concrete lease.
CompatKwargs ==
  { Kwargs(None, PyInt(1), r, du, None, Duration(dl), lv, Duration(lld), None) :
      r \in AllMembers("ReliabilityPolicy"),
      du \in {Member("DurabilityPolicy", n) : n \in {1, 2, 3}},
      dl \in 0..MaxNs,
      lv \in {Member("LivelinessPolicy", n) : n \in {1, 3, 4}},
      lld \in 1..MaxNs }

InitCompat ==
  \E kwa \in CompatKwargs : \E kwb \in CompatKwargs :
    /\ heap = [x \in Own |-> IF x = "a" THEN New(kwa).ret ELSE New(kwb).ret]
    /\ presets = << >>
    /\ ref = "b"
    /\ op = "QoSProfile"
    /\ arg = None
    /\ kwargs = kwb
    /\ exc = "none"
    /\ warned = FALSE
    /\ ret = None
    /\ ncalls = 0

\* qos_check_compatible(x, y) for the objects at x and y.
CheckCompatible(x, y) ==
  /\ op' = "qos_check_compatible"
  /\ arg' = [publisher_qos |-> x, subscription_qos |-> y]
  /\ exc' = "none"
  /\ ret' = qos_check_compatible(Deref(x), Deref(y))
  /\ ncalls' = ncalls + 1
  /\ UNCHANGED <<heap, presets, ref, kwargs, warned>>

CheckAB == ncalls = 0 /\ CheckCompatible("a", "b")

SpecCompat == InitCompat /\ [][CheckAB]_vars

(* ------------------------------------------------------------------ *)
(* SpecPresets: the preset registry and what callers do with it         *)
(* ------------------------------------------------------------------ *)
\* class QoSPresetProfiles(Enum), as declared: member name, module object.
QoSPresetProfilesDecl ==
  << [name |-> <<"U","N","K","N","O","W","N">>, value |-> "qos_profile_unknown"],
     [name |-> <<"D","E","F","A","U","L","T">>, value |-> "qos_profile_default"],
     [name |-> <<"S","Y","S","T","E","M","_","D","E","F","A","U","L","T">>,
      value |-> "qos_profile_system_default"],
     [name |-> <<"S","E","N","S","O","R","_","D","A","T","A">>,
      value |-> "qos_profile_sensor_data"],
     [name |-> <<"S","E","R","V","I","C","E","S","_","D","E","F","A","U","L","T">>,
      value |-> "qos_profile_services_default"],
     [name |-> <<"P","A","R","A","M","E","T","E","R","S">>,
      value |-> "qos_profile_parameters"],
     [name |-> <<"P","A","R","A","M","E","T","E","R","_","E","V","E","N","T","S">>,
      value |-> "qos_profile_parameter_events"],
     [name |-> <<"A","C","T","I","O","N","_","S","T","A","T","U","S","_","D","E","F","A","U","L","T">>,
      value |-> "rcl_action_qos_profile_status_default"],
     [name |-> <<"B","E","S","T","_","A","V","A","I","L","A","B","L","E">>,
      value |-> "qos_profile_best_available"] >>

\* The class as Enum builds it at import: a name whose value == the value
\* of an earlier member (QoSProfile.__eq__; a QoSProfile is not hashable)
\* becomes an alias of that member and shares its value object.
\* The QoSProfile objects the declarations name, from declaration i on.
RECURSIVE DeclaredFrom(_)
DeclaredFrom(i) ==
  IF i > Len(QoSPresetProfilesDecl) THEN << >>
  ELSE <<ModuleProfile(QoSPresetProfilesDecl[i].value)>> \o DeclaredFrom(i + 1)

\* Enum's linear search for the first of the declared values that == the
\* value of declaration i.
RECURSIVE FirstEqual(_, _, _)
FirstEqual(values, j, i) ==
  IF QoSProfile_eq(values[j], values[i]) THEN j
  ELSE FirstEqual(values, j + 1, i)

RECURSIVE MembersFrom(_, _)
MembersFrom(values, i) ==
  IF i > Len(QoSPresetProfilesDecl) THEN << >>
  ELSE <<[name |-> QoSPresetProfilesDecl[i].name,
          value |-> QoSPresetProfilesDecl[FirstEqual(values, 1, i)].value]>>
       \o MembersFrom(values, i + 1)

QoSPresetProfiles == MembersFrom(DeclaredFrom(1), 1)

\* QoSPresetProfiles.short_keys()
QoSPresetProfiles_short_keys == LowerNonLegacy(MemberNames(QoSPresetProfiles), 1)

\* QoSPresetProfiles.get_from_short_key(name): cls[name.upper()].value,
\* a reference to the member's QoSProfile object.  [exc, val]
QoSPresetProfiles_get_from_short_key(name) ==
  LET m == GetItem(QoSPresetProfiles, str_upper(name))
  IN IF m.exc # "none" THEN [exc |-> m.exc, val |-> "none"]
     ELSE [exc |-> "none", val |-> QoSPresetProfiles[m.val].value]

PresetNameInputs ==
  Elements(QoSPresetProfiles_short_keys)
  \cup Elements(MemberNames(QoSPresetProfiles))
  \cup {<<"S","e","n","s","o","r","_","D","a","t","a">>, <<"s","e","n","s","o","r">>, << >>}

\* handle = QoSPresetProfiles.<NAME>.value
LookupMember ==
  /\ ncalls < MaxCalls
  /\ \E m \in Elements(QoSPresetProfiles) :
       /\ op' = "QoSPresetProfiles.value"
       /\ arg' = [cls |-> "QoSPresetProfiles", name |-> m.name]
       /\ ref' = m.value
       /\ ret' = Deref(m.value)
  /\ exc' = "none"
  /\ ncalls' = ncalls + 1
  /\ UNCHANGED <<heap, presets, kwargs, warned>>

\* handle = QoSPresetProfiles.get_from_short_key(name)
LookupShortKey ==
  /\ ncalls < MaxCalls
  /\ \E name \in PresetNameInputs :
       \E r \in {QoSPresetProfiles_get_from_short_key(name)} :
          /\ op' = "QoSPresetProfiles.get_from_short_key"
          /\ arg' = [cls |-> "QoSPresetProfiles", name |-> name]
          /\ exc' = r.exc
          /\ ref' = IF r.exc = "none" THEN r.val ELSE ref
          /\ ret' = IF r.exc = "none" THEN Deref(r.val) ELSE None
  /\ ncalls' = ncalls + 1
  /\ UNCHANGED <<heap, presets, kwargs, warned>>

\* handle = QoSProfile(**kw)
ConstructOwn ==
  /\ ncalls < MaxCalls
  /\ heap["a"] = None
  /\ \E kw \in StartKwargs : Construct(kw)

\* qos_check_compatible between the handle's object and a preset, either way.
CheckWithPreset ==
  /\ ncalls < MaxCalls
  /\ ref # "none"
  /\ \E m \in Elements(QoSPresetProfiles) :
       \E pair \in {<<ref, m.value>>, <<m.value, ref>>} :
         CheckCompatible(pair[1], pair[2])

NextPresets ==
  \/ LookupMember
  \/ LookupShortKey
  \/ ConstructOwn
  \/ CheckWithPreset
  \/ Setters

SpecPresets == Imported /\ [][NextPresets]_vars

(* ------------------------------------------------------------------ *)
(* Properties                                                           *)
(* ------------------------------------------------------------------ *)
\* The enumeration of each policy slot.
SlotPolicy ==
  [history |-> "HistoryPolicy", reliability |-> "ReliabilityPolicy",
   durability |-> "DurabilityPolicy", liveliness |-> "LivelinessPolicy"]

PolicySlots == DOMAIN SlotPolicy

\* C1: a constructor call with depth omitted and history omitted, KEEP_LAST
\* or the integer 1 raises InvalidQoSProfileException and yields no profile,
\* whatever the other seven keywords are.
C1_DepthRequired ==
  (op = "QoSProfile" /\ kwargs.depth = None
     /\ kwargs.history \in {None, KEEP_LAST, PyInt(1)})
  => (exc = "InvalidQoSProfileException" /\ ret = None /\ heap["a"] = None
        /\ ref = "none")

C1_Witness ==
  /\ op = "QoSProfile"
  /\ kwargs.depth = None
  /\ kwargs.history = PyInt(1)
  /\ kwargs.reliability = PyInt(9)
  /\ kwargs.lifespan = Duration(1)
  /\ exc = "InvalidQoSProfileException"

C3_PolicyFieldsAreMembers ==
  /\ ref # "none" =>
       \A f \in PolicySlots : Deref(ref)[f] \in AllMembers(SlotPolicy[f])
  /\ (op \in PolicySlots /\ IsInstanceInt(arg) /\ arg.v \notin MemberValues(SlotPolicy[op]))
       => exc = "ValueError"

C3_Witness ==
  /\ op = "liveliness"
  /\ arg = PyInt(2)
  /\ exc = "ValueError"
  /\ ncalls = 2
  /\ Deref(ref)["liveliness"] = Member("LivelinessPolicy", 3)

\* C4: an operation (constructor, depth setter, history setter) that returns
\* leaving history KEEP_LAST and depth 0 has called warnings.warn.
C4_ZeroDepthAlwaysWarned ==
  (ref # "none" /\ op \in {"QoSProfile", "depth", "history"} /\ exc = "none"
     /\ Deref(ref)["history"] = KEEP_LAST /\ PyEq(Deref(ref)["depth"], PyInt(0)))
  => warned

\* C10: the depth of the caller's profile is never negative.
C10_DepthNonNegative ==
  ref # "none" => (IsInstanceInt(Deref(ref)["depth"]) /\ Deref(ref)["depth"].v >= 0)

\* C8: for two profiles a and b, a == a and b == b hold, a == b and b == a
\* agree, and a == b holds exactly when each of the nine fields of a
\* compares equal (Python ==) to the same field of b.
C8_EqFieldwise ==
  (op = "__eq__" /\ isinstance_QoSProfile(heap["b"]))
  => /\ ret.aa /\ ret.bb
     /\ ret.ab = ret.ba
     /\ ret.ab <=> \A f \in SlotSet : PyEq(heap["a"][f], heap["b"][f])

\* Equal though not identical: depth True against depth 1.
C8_Witness ==
  /\ op = "__eq__"
  /\ isinstance_QoSProfile(heap["b"])
  /\ ret.ab
  /\ heap["a"] # heap["b"]

\* Whether name is the member name in some letter case.
MatchesName(name, memberName) ==
  /\ Len(name) = Len(memberName)
  /\ \A k \in DOMAIN name : CharLower(name[k]) = CharLower(memberName[k])

LowerCased(memberName) == [k \in DOMAIN memberName |-> CharLower(memberName[k])]

\* What C9 says of the three helpers, but for the value found(cls, i) that
\* get_from_short_key is to return for member i of cls.
ShortKeyContract(found(_, _)) ==
  /\ op = "short_keys" =>
       /\ \A i \in DOMAIN Members(arg.cls) :
            LowerCased(Members(arg.cls)[i].name) \in Elements(ret)
       /\ \A k \in Elements(ret) :
            /\ ~str_startswith(k, <<"r","m","w">>)
            /\ \A i \in DOMAIN DeprecatedAliases(arg.cls) :
                 k # LowerCased(DeprecatedAliases(arg.cls)[i].deprecated)
  /\ op = "get_from_short_key" =>
       IF \E i \in DOMAIN Members(arg.cls) : MatchesName(arg.name, Members(arg.cls)[i].name)
         THEN /\ exc = "none"
              /\ \A i \in DOMAIN Members(arg.cls) :
                   MatchesName(arg.name, Members(arg.cls)[i].name) => ret = found(arg.cls, i)
         ELSE exc = "KeyError" /\ ret = None
  /\ op = "short_key" =>
       /\ exc = "none"
       /\ \E i \in DOMAIN Members(arg.t) :
            /\ Members(arg.t)[i].value = arg.v
            /\ ret = LowerCased(Members(arg.t)[i].name)
       /\ ret \in Elements(short_keys(arg.t))

\* C9 as claimed: get_from_short_key returns the member m itself.
C9_ReturnsMember ==
  LET found(cls, i) == Member(cls, Members(cls)[i].value)
  IN ShortKeyContract(found)

\* C9, amended: for every member m of a policy enumeration the lower-cased
\* name of m is in short_keys(), get_from_short_key of that name in any
\* letter case returns the plain integer value of m (equal to m, and
\* converted back to m by the enumeration's constructor), m.short_key is that
\* name, a name matching no member raises KeyError, and no RMW-prefixed name
\* is in short_keys().
C9_ReturnsMemberValue ==
  LET found(cls, i) == PyInt(Members(cls)[i].value)
  IN /\ ShortKeyContract(found)
     /\ (op = "get_from_short_key" /\ exc = "none") =>
          /\ \E m \in AllMembers(arg.cls) : PyEq(ret, m) /\ EnumCall(arg.cls, ret).val = m
          /\ ret \notin AllMembers(arg.cls)

C9_Witness ==
  /\ op = "get_from_short_key"
  /\ arg.cls = "LivelinessPolicy"
  /\ arg.name = <<"m","a","n","u","a","l","_","B","y","_","t","o","p","i","c">>
  /\ exc = "none"
  /\ ret = PyInt(3)

\* The object a preset name stands for has the fields it was built with.
PresetIntact(i) ==
  Deref(QoSPresetProfilesDecl[i].value) = ModuleProfile(QoSPresetProfilesDecl[i].value)

\* C5: whatever callers do, each of the nine presets of the registry keeps
\* the nine field values it had at import.
C5_PresetsNeverMutated == \A i \in DOMAIN QoSPresetProfilesDecl : PresetIntact(i)

\* The fields the four compared policies read, of the object at x.
Fields(x) == heap[x]

\* The verdict of each policy, read off the two profiles' fields.
PolicyVerdicts ==
  LET pub == Fields("a")
      sub == Fields("b")
      Indet(cls, m) ==
        m \in {Member(cls, Members(cls)[i].value) : i \in {1, 4, 5} \cap DOMAIN Members(cls)}
      rel == IF Indet("ReliabilityPolicy", pub["reliability"])
                \/ Indet("ReliabilityPolicy", sub["reliability"]) THEN "WARNING"
             ELSE IF pub["reliability"] = Member("ReliabilityPolicy", 2)
                     /\ sub["reliability"] = Member("ReliabilityPolicy", 1) THEN "ERROR"
             ELSE "OK"
      dur == IF Indet("DurabilityPolicy", pub["durability"])
                \/ Indet("DurabilityPolicy", sub["durability"]) THEN "WARNING"
             ELSE IF pub["durability"] = Member("DurabilityPolicy", 2)
                     /\ sub["durability"] = Member("DurabilityPolicy", 1) THEN "ERROR"
             ELSE "OK"
      dl == IF pub["deadline"] = Duration(0) \/ sub["deadline"] = Duration(0) THEN "WARNING"
            ELSE IF pub["deadline"].v > sub["deadline"].v THEN "ERROR"
            ELSE "OK"
      lv == IF Indet("LivelinessPolicy", pub["liveliness"])
               \/ Indet("LivelinessPolicy", sub["liveliness"]) THEN "WARNING"
            ELSE IF pub["liveliness"] # sub["liveliness"] THEN "ERROR"
            ELSE IF pub["liveliness_lease_duration"].v > sub["liveliness_lease_duration"].v
              THEN "ERROR"
            ELSE "OK"
  IN [RELIABILITY |-> rel, DURABILITY |-> dur, DEADLINE |-> dl, LIVELINESS |-> lv]

\* C6: qos_check_compatible returns (never raises) ERROR if some policy
\* comparison gives ERROR, else WARNING if some gives WARNING, else OK.
C6_VerdictIsWorstPolicy ==
  op = "qos_check_compatible" =>
    /\ exc = "none"
    /\ ret.compatibility =
         IF \E k \in DOMAIN PolicyVerdicts : PolicyVerdicts[k] = "ERROR" THEN "ERROR"
         ELSE IF \E k \in DOMAIN PolicyVerdicts : PolicyVerdicts[k] = "WARNING" THEN "WARNING"
         ELSE "OK"

\* An ERROR on reliability beside an indeterminate durability stays ERROR.
C6_Witness ==
  /\ op = "qos_check_compatible"
  /\ PolicyVerdicts.RELIABILITY = "ERROR"
  /\ PolicyVerdicts.DURABILITY = "WARNING"
  /\ PolicyVerdicts.DEADLINE = "OK"
  /\ ret.compatibility = "ERROR"

\* C7: with the other three policies concrete and compatible, the verdict
\* is OK for publisher RELIABLE with subscription BEST_EFFORT and for equal
\* concrete reliabilities, ERROR for publisher BEST_EFFORT with
\* subscription RELIABLE, WARNING when either reliability is
\* SYSTEM_DEFAULT, UNKNOWN or BEST_AVAILABLE.
C7_ReliabilityAsymmetric ==
  LET pub == Fields("a")
      sub == Fields("b")
      R(n) == Member("ReliabilityPolicy", n)
      othersFine ==
        /\ pub["durability"].v \in {1, 2} /\ sub["durability"].v \in {1, 2}
        /\ ~(pub["durability"].v = 2 /\ sub["durability"].v = 1)
        /\ pub["deadline"].v > 0 /\ sub["deadline"].v > 0
        /\ pub["deadline"].v <= sub["deadline"].v
        /\ pub["liveliness"].v \in {1, 3} /\ pub["liveliness"] = sub["liveliness"]
        /\ pub["liveliness_lease_duration"].v <= sub["liveliness_lease_duration"].v
      p == pub["reliability"]
      q == sub["reliability"]
  IN (op = "qos_check_compatible" /\ othersFine) =>
       /\ (p = R(1) /\ q = R(2)) => ret.compatibility = "OK"
       /\ (p = R(2) /\ q = R(1)) => ret.compatibility = "ERROR"
       /\ (p = q /\ p \in {R(1), R(2)}) => ret.compatibility = "OK"
       /\ (p \in {R(0), R(3), R(4)} \/ q \in {R(0), R(3), R(4)})
            => ret.compatibility = "WARNING"

C7_Witness ==
  /\ op = "qos_check_compatible"
  /\ heap["a"]["reliability"] = Member("ReliabilityPolicy", 2)
  /\ heap["b"]["reliability"] = Member("ReliabilityPolicy", 1)
  /\ heap["a"]["durability"] = Member("DurabilityPolicy", 1)
  /\ heap["b"]["durability"] = Member("DurabilityPolicy", 2)
  /\ heap["a"]["deadline"] = Duration(1)
  /\ heap["b"]["deadline"] = Duration(2)
  /\ heap["a"]["liveliness"] = Member("LivelinessPolicy", 3)
  /\ heap["b"]["liveliness"] = Member("LivelinessPolicy", 3)
  /\ heap["a"]["liveliness_lease_duration"] = heap["b"]["liveliness_lease_duration"]
  /\ ret.compatibility = "ERROR"
  /\ ret.reason = {"RELIABILITY"}

\* C11: a setter call on the caller's profile changes no field but its own:
\* when it returns, the other eight fields are what they were before the
\* call; when it raises, all nine are.  So a history moved away from
\* KEEP_LAST leaves depth where it was.
C11_SetterFrame ==
  [][\A f \in SlotSet :
       (op' \in SlotSet /\ ref # "none" /\ (exc' # "none" \/ f # op'))
         => Deref(ref)'[f] = Deref(ref)[f]]_vars

\* The profile was built KEEP_LAST with depth 1, and the one call since
\* set its history to KEEP_ALL: depth is still 1.
C11_Witness ==
  /\ op = "history"
  /\ exc = "none"
  /\ ncalls = 1
  /\ PyEq(kwargs.history, KEEP_LAST)
  /\ kwargs.depth = PyInt(1)
  /\ arg = Member("HistoryPolicy", 2)
  /\ Deref(ref)["history"] = Member("HistoryPolicy", 2)
  /\ Deref(ref)["depth"] = PyInt(1)
====
